---- MODULE Spec2Model ----
(***************************************************************************)
(* AlgoDock: the participation-key renewal loop (auto_key_renewal.py) and  *)
(* the local account registry (check_node_metrics.py), which share the     *)
(* file accounts.json.                                                     *)
(***************************************************************************)
EXTENDS Integers, Sequences, FiniteSets, TLC

VARIABLES
    file,                   \* accounts.json: [exists, readable, text]
    toolOp,                 \* the registry operation check_node_metrics.py ran last
    prevOp,                 \* the registry operation that ran before it
    wpc,                    \* position of each concurrent registry writer
    wstore,                 \* the dict each concurrent writer loaded
    seen,                   \* what a concurrent load of accounts.json returned
    keys,                   \* participation keys the node holds for the account
    KEY_VALIDITY_DURATION,  \* Config.KEY_VALIDITY_DURATION, read once from the environment
    chainRound,             \* the node's latest committed round
    pc,                     \* position of the renewal process
    iter,                   \* iterations of the main loop started
    renewCalls,             \* invocations of renew_participation_key
    account_address,        \* locals of renew_participation_key
    current_round,
    first_round,
    last_round,
    statusResp,             \* what client.status() answered in this attempt
    loadKind,               \* what accounts.json held when this attempt loaded it
    calls,                  \* goal commands issued in this attempt, in order
    clearRes,               \* how the clearpartkey command ended
    createRes,              \* how the addpartkey command ended
    log,                    \* log lines written in this attempt
    term                    \* how and where the renewal process ended

vars == <<file, toolOp, prevOp, wpc, wstore, seen, keys, KEY_VALIDITY_DURATION, chainRound, pc, iter, renewCalls,
          account_address, current_round, first_round, last_round, statusResp,
          loadKind, calls, clearRes, createRes, log, term>>

registryVars == <<file, toolOp, prevOp>>
writerVars == <<wpc, wstore, seen>>
renewalVars == <<pc, iter, renewCalls, account_address, current_round, first_round,
                 last_round, statusResp, loadKind, calls, clearRes, createRes, log, term>>

(***************************************************************************)
(* Bounds                                                                  *)
(***************************************************************************)
MaxRound == 2
ExampleRound == 5000000
DurationSpan == 1
MaxIter == 4

DefaultKeyValidityDuration == 1000000

Rounds == (0 .. MaxRound) \cup {ExampleRound, ExampleRound + 1}
Durations == ((0 - DurationSpan) .. DurationSpan) \cup {DefaultKeyValidityDuration}

(***************************************************************************)
(* Addresses are strings of characters, display names are opaque.          *)
(***************************************************************************)
EmptyAddr == <<>>
ADDR1 == <<"A", "1">>
ADDR2 == <<"B", "2">>
TruncAddr == <<"A", ".", ".", ".", "1">>
Addrs == {ADDR1, ADDR2}
AddrOrder == <<ADDR1, ADDR2, TruncAddr, EmptyAddr>>
Names == {"", "validator-1"}

(***************************************************************************)
(* The value json.load returns: a dict (with or without its two keys) or   *)
(* another JSON value.                                                     *)
(***************************************************************************)
NoEntries == [a \in {} |-> [hasName |-> FALSE, name |-> ""]]

EmptyStore ==
    [isDict |-> TRUE, hasDefault |-> FALSE, default |-> EmptyAddr,
     hasAccounts |-> FALSE, accounts |-> NoEntries]

ListValue ==
    [isDict |-> FALSE, hasDefault |-> FALSE, default |-> EmptyAddr,
     hasAccounts |-> FALSE, accounts |-> NoEntries]

(***************************************************************************)
(* json.dump: the document as the sequence of tokens written to the file.  *)
(***************************************************************************)
Tok(t, addr, hasName, name) == [t |-> t, addr |-> addr, hasName |-> hasName, name |-> name]
Punct(t) == Tok(t, EmptyAddr, FALSE, "")

RECURSIVE DumpEntries(_, _)
DumpEntries(accounts, i) ==
    IF i > Len(AddrOrder) THEN <<>>
    ELSE LET a == AddrOrder[i]
         IN  (IF a \in DOMAIN accounts
              THEN <<Tok("entry", a, accounts[a].hasName, accounts[a].name)>>
              ELSE <<>>) \o DumpEntries(accounts, i + 1)

Dump(store) ==
    IF ~store.isDict THEN <<Punct("[]")>>
    ELSE <<Punct("{")>>
         \o (IF store.hasDefault THEN <<Tok("default_account", store.default, FALSE, "")>> ELSE <<>>)
         \o (IF store.hasAccounts
             THEN <<Punct("accounts{")>> \o DumpEntries(store.accounts, 1) \o <<Punct("}accounts")>>
             ELSE <<>>)
         \o <<Punct("}")>>

(***************************************************************************)
(* json.load: parses the tokens; raises JSONDecodeError on anything that   *)
(* is not one complete document.                                           *)
(***************************************************************************)
RECURSIVE EntriesEnd(_, _)
EntriesEnd(text, i) ==
    IF i <= Len(text) /\ text[i].t = "entry" THEN EntriesEnd(text, i + 1) ELSE i

ParsedEntries(text, from, to) ==
    [a \in {text[j].addr : j \in from .. to} |->
        LET j == CHOOSE k \in from .. to :
                    /\ text[k].addr = a
                    /\ \A m \in from .. to : text[m].addr = a => m <= k
        IN  [hasName |-> text[j].hasName, name |-> text[j].name]]

Parse(text) ==
    LET n == Len(text)
        bad == [ok |-> FALSE, value |-> EmptyStore]
    IN  IF n = 1 /\ text[1].t = "[]" THEN [ok |-> TRUE, value |-> ListValue]
        ELSE IF n < 2 \/ text[1].t # "{" THEN bad
        ELSE
          LET hasD == text[2].t = "default_account"
              i    == IF hasD THEN 3 ELSE 2
              hasA == i <= n /\ text[i].t = "accounts{"
              e    == IF hasA THEN EntriesEnd(text, i + 1) ELSE i
              last == IF hasA THEN e + 1 ELSE i
          IN  IF /\ (hasA => e <= n /\ text[e].t = "}accounts")
                 /\ last = n
                 /\ text[n].t = "}"
              THEN [ok |-> TRUE,
                    value |-> [isDict |-> TRUE,
                               hasDefault |-> hasD,
                               default |-> IF hasD THEN text[2].addr ELSE EmptyAddr,
                               hasAccounts |-> hasA,
                               accounts |-> IF hasA THEN ParsedEntries(text, i + 1, e - 1)
                                            ELSE NoEntries]]
              ELSE bad

(***************************************************************************)
(* The file accounts.json                                                  *)
(***************************************************************************)
AbsentFile == [exists |-> FALSE, readable |-> FALSE, text |-> <<>>]
FileOf(text) == [exists |-> TRUE, readable |-> TRUE, text |-> text]

FileKind(f) ==
    IF ~f.exists THEN "absent"
    ELSE IF ~f.readable THEN "unreadable"
    ELSE IF ~Parse(f.text).ok THEN "malformed"
    ELSE IF ~Parse(f.text).value.isDict THEN "nondict"
    ELSE "doc"

BadKinds == {"absent", "unreadable", "malformed"}

\* check_node_metrics.load_local_store with its two handlers removed
load_local_store_unguarded(f) ==
    IF ~f.exists THEN [raised |-> FALSE, value |-> EmptyStore]
    ELSE IF ~f.readable \/ ~Parse(f.text).ok THEN [raised |-> TRUE, value |-> EmptyStore]
    ELSE [raised |-> FALSE, value |-> Parse(f.text).value]

\* check_node_metrics.load_local_store
load_local_store(f) ==
    IF ~f.exists THEN [raised |-> FALSE, value |-> EmptyStore]
    ELSE IF ~f.readable THEN [raised |-> FALSE, value |-> EmptyStore]
    ELSE IF ~Parse(f.text).ok THEN [raised |-> FALSE, value |-> EmptyStore]
    ELSE [raised |-> FALSE, value |-> Parse(f.text).value]

\* auto_key_renewal.load_local_store
renewal_load_local_store(f) ==
    IF ~f.exists THEN [raised |-> FALSE, value |-> EmptyStore]
    ELSE IF ~f.readable THEN [raised |-> FALSE, value |-> EmptyStore]
    ELSE IF ~Parse(f.text).ok THEN [raised |-> FALSE, value |-> EmptyStore]
    ELSE [raised |-> FALSE, value |-> Parse(f.text).value]

\* check_node_metrics.get_default_account: None when the key is missing,
\* AttributeError when the document is not a dict
get_default_account(f) ==
    LET ld == load_local_store(f)
    IN  IF ld.raised \/ ~ld.value.isDict
        THEN [raised |-> TRUE, isNone |-> TRUE, addr |-> EmptyAddr]
        ELSE [raised |-> FALSE, isNone |-> ~ld.value.hasDefault, addr |-> ld.value.default]

\* auto_key_renewal.get_default_account: "" when there is no default; only
\* ValueError is handled
renewal_get_default_account(f) ==
    LET ld == renewal_load_local_store(f)
    IN  IF ld.raised \/ ~ld.value.isDict
        THEN [raised |-> TRUE, addr |-> EmptyAddr]
        ELSE IF ~ld.value.hasDefault \/ ld.value.default = EmptyAddr
        THEN [raised |-> FALSE, addr |-> EmptyAddr]
        ELSE [raised |-> FALSE, addr |-> ld.value.default]

\* check_node_metrics.get_account_name
get_account_name(f, a) ==
    LET ld == load_local_store(f)
    IN  IF ld.raised \/ ~ld.value.isDict THEN [raised |-> TRUE, name |-> ""]
        ELSE IF ld.value.hasAccounts /\ a \in DOMAIN ld.value.accounts
                /\ ld.value.accounts[a].hasName
        THEN [raised |-> FALSE, name |-> ld.value.accounts[a].name]
        ELSE [raised |-> FALSE, name |-> ""]

WithEntry(accounts, a, entry) ==
    [x \in (DOMAIN accounts) \cup {a} |-> IF x = a THEN entry ELSE accounts[x]]

\* the default set without the account entry being added
SetDefaultStoreNoInsert(store, a) ==
    [store EXCEPT !.hasDefault = TRUE, !.default = a, !.hasAccounts = TRUE]

\* the entry created as {} and an existing entry reset to {"name": ""}
SetDefaultStoreReset(store, a) ==
    [store EXCEPT !.hasDefault = TRUE,
                  !.default = a,
                  !.hasAccounts = TRUE,
                  !.accounts = IF a \in DOMAIN store.accounts
                               THEN WithEntry(store.accounts, a, [hasName |-> TRUE, name |-> ""])
                               ELSE WithEntry(store.accounts, a, [hasName |-> FALSE, name |-> ""])]

\* the entry written as {"name": ""} whether or not the address is present
SetDefaultStoreOverwrite(store, a) ==
    [store EXCEPT !.hasDefault = TRUE,
                  !.default = a,
                  !.hasAccounts = TRUE,
                  !.accounts = WithEntry(store.accounts, a, [hasName |-> TRUE, name |-> ""])]

\* the dict set_default_account hands to save_local_store
SetDefaultStore(store, a) ==
    [store EXCEPT !.hasDefault = TRUE,
                  !.default = a,
                  !.hasAccounts = TRUE,
                  !.accounts = IF a \in DOMAIN store.accounts THEN store.accounts
                               ELSE WithEntry(store.accounts, a, [hasName |-> TRUE, name |-> ""])]

\* the name stored in a fresh dict instead of the loaded one
SetNameStoreFresh(store, a, n) ==
    [EmptyStore EXCEPT !.hasAccounts = TRUE,
                       !.accounts = WithEntry(NoEntries, a, [hasName |-> TRUE, name |-> n])]

\* the dict set_account_name hands to save_local_store
SetNameStore(store, a, n) ==
    [store EXCEPT !.hasAccounts = TRUE,
                  !.accounts = WithEntry(store.accounts, a, [hasName |-> TRUE, name |-> n])]

(***************************************************************************)
(* save_local_store: open(path, "w") truncates the file, json.dump writes  *)
(* it; any exception is logged and swallowed.  w is what the file system   *)
(* does: "ok", "open_fails" (file untouched) or "write_fails" (the first k *)
(* tokens reached the file).                                               *)
(***************************************************************************)
WriteOutcomes == {"ok", "open_fails", "write_fails"}

\* a save that reports success and leaves the file as it was
save_local_store_unwritten(f, data, w, k) == [raised |-> FALSE, file |-> f]

save_local_store(f, data, w, k) ==
    [raised |-> FALSE,
     file |-> CASE w = "ok" -> [exists |-> TRUE,
                                   readable |-> IF f.exists THEN f.readable ELSE TRUE,
                                   text |-> Dump(data)]
                [] w = "open_fails" -> f
                [] OTHER -> [exists |-> TRUE,
                             readable |-> IF f.exists THEN f.readable ELSE TRUE,
                             text |-> SubSeq(Dump(data), 1, k)]]

Partial(data, w) == IF w = "write_fails" THEN 0 .. (Len(Dump(data)) - 1) ELSE {0}

NoOp ==
    [op |-> "none", kind |-> "absent", raised |-> FALSE, saveFailed |-> FALSE,
     isNone |-> TRUE, addr |-> EmptyAddr, name |-> ""]

\* what the next operation remembers of the one before it
Brief(op) == [op |-> op.op, addr |-> op.addr, ok |-> ~op.raised /\ ~op.saveFailed]

\* set_default_account(full_address)
SetDefaultAccount(a) ==
    LET ld == load_local_store(file)
        op == [NoOp EXCEPT !.op = "set_default_account", !.kind = FileKind(file), !.addr = a]
    IN  /\ IF ld.raised \/ ~ld.value.isDict
           THEN /\ toolOp' = [op EXCEPT !.raised = TRUE]
                /\ file' = file
           ELSE \E w \in WriteOutcomes :
                  \E k \in Partial(SetDefaultStore(ld.value, a), w) :
                    LET sv == save_local_store(file, SetDefaultStore(ld.value, a), w, k)
                    IN  /\ file' = sv.file
                        /\ toolOp' = [op EXCEPT !.raised = sv.raised, !.saveFailed = (w # "ok")]
        /\ prevOp' = Brief(toolOp)
        /\ UNCHANGED <<writerVars, keys, KEY_VALIDITY_DURATION, chainRound, renewalVars>>

\* set_account_name(full_address, name)
SetAccountName(a, n) ==
    LET ld == load_local_store(file)
        op == [NoOp EXCEPT !.op = "set_account_name", !.kind = FileKind(file),
                           !.addr = a, !.name = n]
    IN  /\ IF ld.raised \/ ~ld.value.isDict
           THEN /\ toolOp' = [op EXCEPT !.raised = TRUE]
                /\ file' = file
           ELSE \E w \in WriteOutcomes :
                  \E k \in Partial(SetNameStore(ld.value, a, n), w) :
                    LET sv == save_local_store(file, SetNameStore(ld.value, a, n), w, k)
                    IN  /\ file' = sv.file
                        /\ toolOp' = [op EXCEPT !.raised = sv.raised, !.saveFailed = (w # "ok")]
        /\ prevOp' = Brief(toolOp)
        /\ UNCHANGED <<writerVars, keys, KEY_VALIDITY_DURATION, chainRound, renewalVars>>

\* the test without its truncation marker: any default that differs is replaced
NeedsUpgradeAnyDefault(d, candidate) ==
    ~d.isNone /\ d.addr # EmptyAddr /\ d.addr # candidate

\* "..." in default_acct
HasEllipsis(addr) ==
    \E i \in 1 .. (Len(addr) - 2) : addr[i] = "." /\ addr[i + 1] = "." /\ addr[i + 2] = "."

\* if default_acct and "..." in default_acct and default_acct != parent_addr
NeedsUpgrade(d, candidate) ==
    ~d.isNone /\ d.addr # EmptyAddr /\ HasEllipsis(d.addr) /\ d.addr # candidate

\* merge_partkeys_and_show, for one key record whose parent address (or "" when
\* the record has none) is the candidate: upgrade a truncated default
ReconcileDefault(candidate) ==
    LET d  == get_default_account(file)
        ld == load_local_store(file)
        op == [NoOp EXCEPT !.op = "reconcile_default", !.kind = FileKind(file),
                           !.addr = candidate]
    IN  /\ IF d.raised
           THEN /\ toolOp' = [op EXCEPT !.raised = TRUE]
                /\ file' = file
           ELSE IF ~NeedsUpgrade(d, candidate)
           THEN /\ toolOp' = op
                /\ file' = file
           ELSE \E w \in WriteOutcomes :
                  \E k \in Partial(SetDefaultStore(ld.value, candidate), w) :
                    LET sv == save_local_store(file, SetDefaultStore(ld.value, candidate), w, k)
                    IN  /\ file' = sv.file
                        /\ toolOp' = [op EXCEPT !.raised = sv.raised, !.saveFailed = (w # "ok")]
        /\ prevOp' = Brief(toolOp)
        /\ UNCHANGED <<writerVars, keys, KEY_VALIDITY_DURATION, chainRound, renewalVars>>

\* get_default_account()
GetDefaultAccount ==
    LET r == get_default_account(file)
    IN  /\ toolOp' = [NoOp EXCEPT !.op = "get_default_account", !.kind = FileKind(file),
                                  !.raised = r.raised, !.isNone = r.isNone, !.addr = r.addr]
        /\ prevOp' = Brief(toolOp)
        /\ UNCHANGED <<file, writerVars, keys, KEY_VALIDITY_DURATION, chainRound, renewalVars>>

\* get_account_name(full_address)
GetAccountName(a) ==
    LET r == get_account_name(file, a)
    IN  /\ toolOp' = [NoOp EXCEPT !.op = "get_account_name", !.kind = FileKind(file),
                                  !.raised = r.raised, !.addr = a, !.name = r.name]
        /\ prevOp' = Brief(toolOp)
        /\ UNCHANGED <<file, writerVars, keys, KEY_VALIDITY_DURATION, chainRound, renewalVars>>

(***************************************************************************)
(* auto_key_renewal.py                                                     *)
(***************************************************************************)
NoStatus == [has |-> FALSE, round |-> 0]
NoTerm == [cause |-> "none", at |-> "none"]

\* status.get("last-round", 0)
LastRound(resp) == IF resp.has THEN resp.round ELSE 0

\* first_round = current_round, the off-by-one variant
ComputeWindowFromCurrent(current, duration) ==
    [first |-> current, last |-> current + duration]

\* first_round = current_round + 1; last_round = first_round + KEY_VALIDITY_DURATION
ComputeWindow(current, duration) ==
    [first |-> current + 1, last |-> (current + 1) + duration]

\* generate_participation_key called without clear_old_participation_keys before it
CreateWithoutClear == "create"

\* the statement that follows the window computation: clear_old_participation_keys
AfterWindow == "clear"

(***************************************************************************)
(* run_goal_command: how subprocess.run ended decides whether it returns,  *)
(* re-raises, or calls exit(1).  SystemExit is not an Exception, so no     *)
(* handler of this program catches it.                                     *)
(***************************************************************************)
GoalOutcomes == {"ok", "failed", "absent", "error"}

run_goal_command(out) ==
    CASE out = "ok"     -> [end |-> "returned", log |-> {"Command succeeded"}]
      [] out = "failed" -> [end |-> "raised",   log |-> {"Command failed"}]
      [] out = "absent" -> [end |-> "exit",     log |-> {"'goal' CLI tool not found"}]
      [] OTHER          -> [end |-> "raised",   log |-> {"Unexpected error while executing command"}]

ClientOutcomes == {"ok", "no_token", "init_error"}

(***************************************************************************)
(* The node's key store, as the two commands are documented to act on it:  *)
(* clearpartkey, when it succeeds, removes the account's old keys;         *)
(* addpartkey, when it succeeds, adds one key.  A command that fails       *)
(* leaves the store as it was.                                             *)
(***************************************************************************)
\* a clearpartkey that reports success without removing anything
KeysAfterClearKept(held, out) == held

KeysAfterClear(held, out) == IF out = "ok" THEN 0 ELSE held
KeysAfterCreate(held, out) == IF out = "ok" THEN held + 1 ELSE held

ClearCall(a) == [op |-> "clearpartkey", addr |-> a, first |-> 0, last |-> 0]
CreateCall(a, f, l) == [op |-> "addpartkey", addr |-> a, first |-> f, last |-> l]

\* the check of line 180 left out
NoAccountUnchecked(addr) == FALSE

\* if not account_address
NoAccount(addr) == addr = EmptyAddr

\* while True: renew_participation_key()
LoopEnter ==
    /\ pc = "loop"
    /\ renewCalls < MaxIter
    /\ pc' = "renew"
    /\ renewCalls' = renewCalls + 1
    /\ account_address' = EmptyAddr
    /\ current_round' = 0
    /\ first_round' = 0
    /\ last_round' = 0
    /\ statusResp' = NoStatus
    /\ loadKind' = "none"
    /\ calls' = <<>>
    /\ clearRes' = "none"
    /\ createRes' = "none"
    /\ log' = {}
    /\ UNCHANGED <<registryVars, writerVars, keys, KEY_VALIDITY_DURATION, chainRound, iter, term>>

\* renew_participation_key up to the check of the default account
RenewStart ==
    /\ pc = "renew"
    /\ \E c \in ClientOutcomes :
         IF c # "ok"
         THEN /\ pc' = "terminated"
              /\ term' = [cause |-> "exit", at |-> "client"]
              /\ log' = log \cup {"Failed to initialize Algod client"}
              /\ UNCHANGED <<account_address, loadKind>>
         ELSE LET r == renewal_get_default_account(file)
              IN  /\ loadKind' = FileKind(file)
                  /\ term' = term
                  /\ IF r.raised
                     THEN /\ log' = log \cup {"An error occurred during participation key renewal"}
                          /\ pc' = "sleep"
                          /\ UNCHANGED account_address
                     ELSE IF NoAccount(r.addr)
                     THEN /\ log' = log \cup {"No default account configured in the local store",
                                              "No default account available to renew keys"}
                          /\ pc' = "sleep"
                          /\ UNCHANGED account_address
                     ELSE /\ log' = log
                          /\ pc' = "status"
                          /\ account_address' = r.addr
    /\ UNCHANGED <<registryVars, writerVars, keys, KEY_VALIDITY_DURATION, chainRound,
                   iter, renewCalls,
                   current_round, first_round, last_round, statusResp, calls,
                   clearRes, createRes>>

\* status = client.status() and the window computation
StatusQuery ==
    /\ pc = "status"
    /\ \E answer \in {"raises", "no_round", "round"} :
         IF answer = "raises"
         THEN /\ log' = log \cup {"An error occurred during participation key renewal"}
              /\ pc' = "sleep"
              /\ UNCHANGED <<statusResp, current_round, first_round, last_round>>
         ELSE LET resp == [has |-> (answer = "round"),
                           round |-> IF answer = "round" THEN chainRound ELSE 0]
                  w == ComputeWindow(LastRound(resp), KEY_VALIDITY_DURATION)
              IN  /\ statusResp' = resp
                  /\ current_round' = LastRound(resp)
                  /\ first_round' = w.first
                  /\ last_round' = w.last
                  /\ log' = log \cup {"Renewing key for rounds"}
                  /\ pc' = AfterWindow
    /\ UNCHANGED <<registryVars, writerVars, keys, KEY_VALIDITY_DURATION, chainRound,
                   iter, renewCalls,
                   account_address, loadKind, calls, clearRes, createRes, term>>

\* clear_old_participation_keys: the clearpartkey command is started
ClearIssue ==
    /\ pc = "clear"
    /\ calls' = Append(calls, ClearCall(account_address))
    /\ pc' = "clear_wait"
    /\ UNCHANGED <<registryVars, writerVars, keys, KEY_VALIDITY_DURATION, chainRound,
                   iter, renewCalls,
                   account_address, current_round, first_round, last_round, statusResp,
                   loadKind, clearRes, createRes, log, term>>

\* clear_old_participation_keys: the command ends
ClearReturn ==
    /\ pc = "clear_wait"
    /\ \E out \in GoalOutcomes :
         LET r == run_goal_command(out)
         IN  /\ clearRes' = out
             /\ log' = log \cup r.log \cup
                         (CASE r.end = "returned" -> {"Old participation keys cleared"}
                            [] r.end = "raised"   -> {"Failed to clear old keys"}
                            [] OTHER              -> {})
             /\ pc' = IF r.end = "exit" THEN "terminated" ELSE "create"
             /\ term' = IF r.end = "exit" THEN [cause |-> "exit", at |-> "clear"] ELSE term
             /\ keys' = KeysAfterClear(keys, out)
    /\ UNCHANGED <<registryVars, writerVars, KEY_VALIDITY_DURATION, chainRound,
                   iter, renewCalls,
                   account_address, current_round, first_round, last_round, statusResp,
                   loadKind, calls, createRes>>

\* generate_participation_key: the addpartkey command is started
CreateIssue ==
    /\ pc = "create"
    /\ calls' = Append(calls, CreateCall(account_address, first_round, last_round))
    /\ pc' = "create_wait"
    /\ UNCHANGED <<registryVars, writerVars, keys, KEY_VALIDITY_DURATION, chainRound,
                   iter, renewCalls,
                   account_address, current_round, first_round, last_round, statusResp,
                   loadKind, clearRes, createRes, log, term>>

\* generate_participation_key: the command ends
CreateReturn ==
    /\ pc = "create_wait"
    /\ \E out \in GoalOutcomes :
         LET r == run_goal_command(out)
         IN  /\ createRes' = out
             /\ log' = log \cup r.log \cup
                         (CASE r.end = "returned" -> {"Participation key generated"}
                            [] r.end = "raised"   -> {"Failed to generate participation key"}
                            [] OTHER              -> {})
             /\ pc' = IF r.end = "exit" THEN "terminated" ELSE "sleep"
             /\ term' = IF r.end = "exit" THEN [cause |-> "exit", at |-> "create"] ELSE term
             /\ keys' = KeysAfterCreate(keys, out)
    /\ UNCHANGED <<registryVars, writerVars, KEY_VALIDITY_DURATION, chainRound,
                   iter, renewCalls,
                   account_address, current_round, first_round, last_round, statusResp,
                   loadKind, calls, clearRes>>

\* time.sleep(Config.CHECK_INTERVAL), then the next iteration
Sleep ==
    /\ pc = "sleep"
    /\ pc' = "loop"
    /\ iter' = iter + 1
    /\ UNCHANGED <<registryVars, writerVars, keys, KEY_VALIDITY_DURATION, chainRound,
                   renewCalls,
                   account_address, current_round, first_round, last_round, statusResp,
                   loadKind, calls, clearRes, createRes, log, term>>

(***************************************************************************)
(* The shutdown signal of the host.  The script installs no handler and    *)
(* its except clauses name Exception, so KeyboardInterrupt (or the default *)
(* action of SIGTERM) ends the process at whatever statement it is in.     *)
(***************************************************************************)
Cancel ==
    /\ pc # "terminated"
    /\ pc' = "terminated"
    /\ term' = [cause |-> "cancel", at |-> pc]
    /\ UNCHANGED <<registryVars, writerVars, keys, KEY_VALIDITY_DURATION, chainRound,
                   iter, renewCalls,
                   account_address, current_round, first_round, last_round, statusResp,
                   loadKind, calls, clearRes, createRes, log>>

\* the chain commits further rounds
ChainAdvance ==
    /\ \E r \in Rounds : r > chainRound /\ chainRound' = r
    /\ UNCHANGED <<registryVars, writerVars, keys, KEY_VALIDITY_DURATION, renewalVars>>

(***************************************************************************)
(* Initial states                                                          *)
(***************************************************************************)
NamedStore == SetNameStore(SetDefaultStore(EmptyStore, ADDR1), ADDR1, "validator-1")

\* {"default_account": ""}
EmptyDefaultStore == [EmptyStore EXCEPT !.hasDefault = TRUE]

\* {"accounts": {ADDR1: {}}}
NamelessStore ==
    [EmptyStore EXCEPT !.hasAccounts = TRUE,
                       !.accounts = WithEntry(NoEntries, ADDR1, [hasName |-> FALSE, name |-> ""])]

InitFiles ==
    { AbsentFile,
      [exists |-> TRUE, readable |-> FALSE, text |-> Dump(NamedStore)],
      FileOf(<<>>),
      FileOf(SubSeq(Dump(NamedStore), 1, 3)),
      FileOf(Dump(ListValue)),
      FileOf(Dump(EmptyStore)),
      FileOf(Dump(EmptyDefaultStore)),
      FileOf(Dump(NamelessStore)),
      FileOf(Dump(NamedStore)) }

RenewalInit ==
    /\ pc = "loop"
    /\ iter = 0
    /\ renewCalls = 0
    /\ account_address = EmptyAddr
    /\ current_round = 0
    /\ first_round = 0
    /\ last_round = 0
    /\ statusResp = NoStatus
    /\ loadKind = "none"
    /\ calls = <<>>
    /\ clearRes = "none"
    /\ createRes = "none"
    /\ log = {}
    /\ term = NoTerm

(***************************************************************************)
(* Spec: the renewal process, started on any registry file, any configured *)
(* validity duration and any chain round.                                  *)
(***************************************************************************)
Writers == {1, 2}
NotLoaded == [done |-> FALSE, kind |-> "absent", addr |-> EmptyAddr]
IdleWriter == [at |-> "idle", op |-> "none", name |-> "", otherAt |-> "idle"]

WriterInit ==
    /\ wpc = [w \in Writers |-> IdleWriter]
    /\ wstore = [w \in Writers |-> EmptyStore]
    /\ seen = NotLoaded

Init ==
    /\ file \in InitFiles
    /\ toolOp = NoOp
    /\ prevOp = Brief(NoOp)
    /\ WriterInit
    /\ keys \in 0 .. 1
    /\ KEY_VALIDITY_DURATION \in Durations
    /\ chainRound \in Rounds
    /\ RenewalInit

Next ==
    \/ LoopEnter
    \/ RenewStart
    \/ StatusQuery
    \/ ClearIssue
    \/ ClearReturn
    \/ CreateIssue
    \/ CreateReturn
    \/ Sleep
    \/ Cancel
    \/ ChainAdvance

Spec == Init /\ [][Next]_vars

(***************************************************************************)
(* RegistrySpec: the registry operations of check_node_metrics.py, started *)
(* on any registry file.                                                   *)
(***************************************************************************)
RegistryInit ==
    /\ file \in InitFiles
    /\ toolOp = NoOp
    /\ prevOp = Brief(NoOp)
    /\ WriterInit
    /\ keys = 0
    /\ KEY_VALIDITY_DURATION = DefaultKeyValidityDuration
    /\ chainRound = 0
    /\ RenewalInit

RegistryNext ==
    \/ \E a \in Addrs : SetDefaultAccount(a)
    \/ \E a \in Addrs : \E n \in Names : SetAccountName(a, n)
    \/ GetDefaultAccount
    \/ \E a \in Addrs : GetAccountName(a)

RegistrySpec == RegistryInit /\ [][RegistryNext]_vars

(***************************************************************************)
(* ReconcileSpec: the registry operations with the upgrade of a truncated  *)
(* default, started on an empty registry.  The operator can type any       *)
(* address, a truncated one included; a key record can carry any parent    *)
(* address or none.                                                        *)
(***************************************************************************)
TypedAddrs == {ADDR1, TruncAddr}
ParentAddrs == {ADDR1, TruncAddr, EmptyAddr}

ReconcileInit ==
    /\ file \in {AbsentFile, FileOf(Dump(EmptyStore))}
    /\ toolOp = NoOp
    /\ prevOp = Brief(NoOp)
    /\ WriterInit
    /\ keys = 0
    /\ KEY_VALIDITY_DURATION = DefaultKeyValidityDuration
    /\ chainRound = 0
    /\ RenewalInit

ReconcileNext ==
    \/ \E a \in TypedAddrs : SetDefaultAccount(a)
    \/ \E a \in TypedAddrs : \E n \in Names : SetAccountName(a, n)
    \/ \E c \in ParentAddrs : ReconcileDefault(c)

ReconcileSpec == ReconcileInit /\ [][ReconcileNext]_vars

(***************************************************************************)
(* ConcSpec: two tool processes each run one set_default_account or         *)
(* set_account_name call on the same accounts.json while the renewal        *)
(* process loads it.  A call is three steps, one per file-system access:    *)
(* the load, open(path, "w") which truncates, and the write of the dumped   *)
(* document when the with-block closes the file.                            *)
(***************************************************************************)
WriterAddr == <<ADDR1, ADDR2>>
WriterOps == {"set_default_account", "set_account_name"}
Other(w) == 3 - w

\* every writer builds its dict from an empty one instead of the loaded file
WriterStoreStale(f, op, a, n) ==
    IF op = "set_default_account" THEN SetDefaultStore(EmptyStore, a)
    ELSE SetNameStore(EmptyStore, a, n)

\* the dict a call builds between its load and its save
WriterStore(f, op, a, n) ==
    IF op = "set_default_account" THEN SetDefaultStore(load_local_store(f).value, a)
    ELSE SetNameStore(load_local_store(f).value, a, n)

\* a write of data at offset 0 of a file that holds text
Overlay(text, data) == data \o SubSeq(text, Len(data) + 1, Len(text))

WriterLoad(w, op, n) ==
    /\ wpc[w].at = "idle"
    /\ ~load_local_store(file).raised
    /\ load_local_store(file).value.isDict
    /\ wpc' = [wpc EXCEPT ![w] = [at |-> "loaded", op |-> op, name |-> n,
                                  otherAt |-> wpc[Other(w)].at]]
    /\ wstore' = [wstore EXCEPT ![w] = WriterStore(file, op, WriterAddr[w], n)]
    /\ UNCHANGED <<file, seen, toolOp, prevOp, keys, KEY_VALIDITY_DURATION, chainRound, renewalVars>>

WriterOpen(w) ==
    /\ wpc[w].at = "loaded"
    /\ wpc' = [wpc EXCEPT ![w].at = "opened"]
    /\ file' = FileOf(<<>>)
    /\ UNCHANGED <<wstore, seen, toolOp, prevOp, keys, KEY_VALIDITY_DURATION, chainRound, renewalVars>>

WriterWrite(w) ==
    /\ wpc[w].at = "opened"
    /\ wpc' = [wpc EXCEPT ![w].at = "done"]
    /\ file' = FileOf(Overlay(file.text, Dump(wstore[w])))
    /\ UNCHANGED <<wstore, seen, toolOp, prevOp, keys, KEY_VALIDITY_DURATION, chainRound, renewalVars>>

\* the renewal process reads the default account
ReaderLoad ==
    /\ seen' = [done |-> TRUE, kind |-> FileKind(file),
                addr |-> renewal_get_default_account(file).addr]
    /\ UNCHANGED <<file, wpc, wstore, toolOp, prevOp, keys, KEY_VALIDITY_DURATION, chainRound, renewalVars>>

ConcInit ==
    /\ file \in {AbsentFile, FileOf(Dump(EmptyStore)), FileOf(Dump(NamedStore))}
    /\ toolOp = NoOp
    /\ prevOp = Brief(NoOp)
    /\ WriterInit
    /\ keys = 0
    /\ KEY_VALIDITY_DURATION = DefaultKeyValidityDuration
    /\ chainRound = 0
    /\ RenewalInit

ConcNext ==
    \/ \E w \in Writers : \E op \in WriterOps : \E n \in Names : WriterLoad(w, op, n)
    \/ \E w \in Writers : WriterOpen(w)
    \/ \E w \in Writers : WriterWrite(w)
    \/ ReaderLoad

ConcSpec == ConcInit /\ [][ConcNext]_vars

(***************************************************************************)
(* What one renewal attempt reported, read off its log lines.              *)
(***************************************************************************)
RenewalOutcome ==
    [success |-> "Participation key generated" \in log,
     clearedOldKey |-> "Old participation keys cleared" \in log,
     clearFailureRecorded |-> "Failed to clear old keys" \in log,
     createFailureReported |-> "Failed to generate participation key" \in log]

CreateCalls == {i \in 1 .. Len(calls) : calls[i].op = "addpartkey"}
ClearCalls == {i \in 1 .. Len(calls) : calls[i].op = "clearpartkey"}
GoalFailures == {"failed", "absent", "error"}
AttemptOver == pc \in {"sleep", "loop", "terminated"}
ValidDuration == KEY_VALIDITY_DURATION > 0

(***************************************************************************)
(* Claims                                                                  *)
(***************************************************************************)

\* C1: for a current round r >= 0 read from the chain status in this attempt
\* and a validity duration d > 0, the window passed to the create-key call has
\* firstRound = r + 1 and lastRound = firstRound + d; r = 5000000 and
\* d = 1000000 give 5000001 and 6000001.
C1_WindowFromStatusRound ==
    \A i \in CreateCalls :
        (statusResp.has /\ statusResp.round >= 0 /\ KEY_VALIDITY_DURATION > 0)
        => /\ calls[i].first = statusResp.round + 1
           /\ calls[i].last = calls[i].first + KEY_VALIDITY_DURATION
           /\ (statusResp.round = 5000000 /\ KEY_VALIDITY_DURATION = 1000000
               => calls[i].first = 5000001 /\ calls[i].last = 6000001)

\* C1 witness: a create-key call issued for the round read at ExampleRound with
\* the default duration, after the chain has moved past the round that was read.
C1_Witness ==
    /\ CreateCalls # {}
    /\ statusResp.has
    /\ statusResp.round = ExampleRound
    /\ chainRound > statusResp.round
    /\ KEY_VALIDITY_DURATION = DefaultKeyValidityDuration
    /\ \A i \in CreateCalls : calls[i].first = ExampleRound + 1

\* C2: a renewal whose current round is < 0 or whose validity duration is <= 0
\* issues neither the clear-key nor the create-key call, so every window passed
\* to create-key has firstRound >= 0 and lastRound > firstRound.
C2_InvalidInputRejected ==
    /\ (statusResp.has /\ (current_round < 0 \/ KEY_VALIDITY_DURATION <= 0)) => calls = <<>>
    /\ \A i \in CreateCalls : calls[i].first >= 0 /\ calls[i].last > calls[i].first

\* C3: within an attempt the clear-key call is issued and has returned before
\* the create-key call is issued; create-key never precedes the attempt's
\* clear-key.
C3_ClearBeforeCreate ==
    /\ \A i \in CreateCalls :
          /\ \E j \in ClearCalls : j < i
          /\ clearRes # "none"
    /\ \A j \in ClearCalls : \A i \in CreateCalls : j < i
    /\ (pc \in {"create", "create_wait"} => ClearCalls # {} /\ clearRes # "none")

\* C3 witness: both commands of an attempt have been issued.
C3_Witness ==
    /\ Len(calls) = 2
    /\ calls[1].op = "clearpartkey"
    /\ calls[2].op = "addpartkey"
    /\ pc = "create_wait"

\* C4: (with a valid configured duration) when the clear-key call fails, the
\* failure is recorded and the create-key call is still issued in the same
\* attempt with the computed window; if that create-key call succeeds the
\* outcome is success with clearedOldKey false.
C4_ClearFailureNotFatal ==
    (ValidDuration /\ clearRes \in GoalFailures /\ AttemptOver /\ term.cause # "cancel")
    => /\ RenewalOutcome.clearFailureRecorded
       /\ \E i \in CreateCalls :
             calls[i] = CreateCall(account_address, first_round, last_round)
       /\ (createRes = "ok"
           => RenewalOutcome.success /\ ~RenewalOutcome.clearedOldKey)

\* C5: (with a valid configured duration) when the create-key call fails,
\* whatever the clear step did, the renewal reports a failed outcome carrying
\* the create failure and returns to its caller without issuing another
\* external call.
C5_CreateFailureReported ==
    (ValidDuration /\ createRes \in GoalFailures /\ term.cause # "cancel")
    => /\ ~RenewalOutcome.success
       /\ RenewalOutcome.createFailureReported
       /\ pc \in {"sleep", "loop"}
       /\ Len(calls) = 2

\* C6: (with a valid configured duration) no failed renewal attempt stops the
\* scheduler loop: iteration k+1 starts after iteration k and its sleep, so
\* after n iterations renew has been invoked exactly n times and the loop is
\* still running.
C6_SchedulerKeepsIterating ==
    (ValidDuration /\ term.cause # "cancel" /\ term.at # "client")
    => /\ pc # "terminated"
       /\ (pc = "loop" => renewCalls = iter)
       /\ (pc # "loop" => renewCalls = iter + 1)

\* C7: (with a valid configured duration) whatever the status query, the
\* clear-key call or the create-key call does, the tool being absent included,
\* control returns to the scheduler loop, which goes on to its sleep.
C7_ControlReturnsToScheduler ==
    [][(ValidDuration /\ pc \in {"status", "clear_wait", "create_wait"} /\ pc' = "terminated")
       => term'.cause = "cancel"]_vars

\* C8: (with a valid configured duration) a cancellation that arrives while a
\* renewal is in progress takes effect at the iteration boundary only, never
\* between the clear step and the create step.
C8_CancelOnlyAtBoundary ==
    (ValidDuration /\ term.cause = "cancel")
    => term.at \notin {"clear_wait", "create", "create_wait"}

\* C9: when the write of the persisted document fails during setDefault or
\* setName, the operation surfaces an error to its caller.
C9_SaveFailureSurfaces ==
    (toolOp.op \in {"set_default_account", "set_account_name"} /\ toolOp.saveFailed)
    => toolOp.raised

\* C10: loading never fails: on an absent, unreadable or malformed file both
\* loaders return the empty registry, getDefault returns empty, and the
\* operations run on it without raising; a successful setDefault on an absent
\* or malformed file leaves a document whose default is the address given.
C10_LoadNeverFails ==
    /\ FileKind(file) \in BadKinds
       => /\ load_local_store(file) = [raised |-> FALSE, value |-> EmptyStore]
          /\ renewal_load_local_store(file) = [raised |-> FALSE, value |-> EmptyStore]
          /\ renewal_get_default_account(file) = [raised |-> FALSE, addr |-> EmptyAddr]
    /\ (toolOp.op # "none" /\ toolOp.kind \in BadKinds)
       => /\ ~toolOp.raised
          /\ (toolOp.op = "get_default_account" => toolOp.isNone)
          /\ (toolOp.op = "get_account_name" => toolOp.name = "")
          /\ (toolOp.op = "set_default_account" /\ ~toolOp.saveFailed
                 /\ toolOp.kind \in {"absent", "malformed"}
              => /\ FileKind(file) = "doc"
                 /\ get_default_account(file)
                      = [raised |-> FALSE, isNone |-> FALSE, addr |-> toolOp.addr])

\* C10 witness: getDefault has run on a malformed file and returned empty.
C10_Witness ==
    /\ toolOp.op = "get_default_account"
    /\ toolOp.kind = "malformed"
    /\ FileKind(file) = "malformed"
    /\ toolOp.isNone
    /\ ~toolOp.raised

NoDefaultConfigured(f) ==
    \/ FileKind(f) \in BadKinds
    \/ /\ FileKind(f) = "doc"
       /\ \/ ~Parse(f.text).value.hasDefault
          \/ Parse(f.text).value.default = EmptyAddr

\* C20: a renewal attempt made while the registry has no default account (the
\* key absent or empty, the file missing, unreadable or malformed) issues
\* neither command and does not query the chain status: it logs and returns to
\* the scheduler, which goes on to its sleep.
C20_NoDefaultNoCalls ==
    (loadKind # "none" /\ NoDefaultConfigured(file))
    => /\ calls = <<>>
       /\ clearRes = "none"
       /\ createRes = "none"
       /\ statusResp = NoStatus
       /\ account_address = EmptyAddr
       /\ log = {"No default account configured in the local store",
                 "No default account available to renew keys"}
       /\ pc \in {"sleep", "loop", "terminated"}
       /\ (pc = "terminated" => term.cause = "cancel")

\* C20 witness: the second iteration has run on a registry without a default
\* account and the scheduler is at its sleep again.
C20_Witness ==
    /\ renewCalls = 2
    /\ iter = 1
    /\ pc = "sleep"
    /\ loadKind = "doc"
    /\ NoDefaultConfigured(file)
    /\ calls = <<>>

Loaded(f) == load_local_store(f).value

\* C11: starting from an empty registry, after any sequence of setDefault,
\* setName and reconcileDefault, whenever the default account is set its
\* address is a key of the accounts map.
C11_DefaultIsAccount ==
    Loaded(file).hasDefault
    => /\ Loaded(file).hasAccounts
       /\ Loaded(file).default \in DOMAIN Loaded(file).accounts

\* C11 witness: a truncated default was typed after an upgrade; both addresses
\* are accounts.
C11_Witness ==
    /\ prevOp.op = "reconcile_default"
    /\ toolOp.op = "set_default_account"
    /\ toolOp.addr = TruncAddr
    /\ ~toolOp.saveFailed
    /\ Loaded(file).hasDefault
    /\ Loaded(file).default = TruncAddr
    /\ {ADDR1, TruncAddr} \subseteq DOMAIN Loaded(file).accounts

\* C13: setDefault(a) called twice in a row leaves the registry (default and
\* accounts with their display names) as one call left it.
C13_SetDefaultIdempotent ==
    [][(/\ toolOp.op = "set_default_account"
        /\ ~toolOp.raised /\ ~toolOp.saveFailed
        /\ toolOp'.op = "set_default_account"
        /\ toolOp'.addr = toolOp.addr
        /\ ~toolOp'.raised /\ ~toolOp'.saveFailed)
       => file' = file]_vars

\* C13 witness: setDefault(ADDR2) has run twice in a row on a registry that
\* holds a named account.
C13_Witness ==
    /\ prevOp = [op |-> "set_default_account", addr |-> ADDR2, ok |-> TRUE]
    /\ toolOp.op = "set_default_account"
    /\ toolOp.addr = ADDR2
    /\ ~toolOp.saveFailed
    /\ Loaded(file).default = ADDR2
    /\ ADDR1 \in DOMAIN Loaded(file).accounts
    /\ Loaded(file).accounts[ADDR1].name = "validator-1"

\* C14: reconcileDefault(candidate) replaces the default with the candidate
\* exactly when the default is set, contains the truncation marker and differs
\* from the candidate; otherwise the registry is left as it was.
C14_ReconcileWhenTruncated ==
    [][(toolOp'.op = "reconcile_default" /\ ~toolOp'.raised)
       => LET d == Loaded(file)
              truncated == d.hasDefault /\ d.default = TruncAddr
                              /\ toolOp'.addr # TruncAddr
          IN  /\ (truncated /\ ~toolOp'.saveFailed)
                 => Loaded(file').hasDefault /\ Loaded(file').default = toolOp'.addr
              /\ ~truncated => (file' = file /\ ~toolOp'.saveFailed)]_vars

\* C14 witness: the truncated default typed by the operator has been replaced
\* by the full parent address of a key record.
C14_Witness ==
    /\ prevOp = [op |-> "set_default_account", addr |-> TruncAddr, ok |-> TRUE]
    /\ toolOp.op = "reconcile_default"
    /\ toolOp.addr = ADDR1
    /\ ~toolOp.saveFailed
    /\ Loaded(file).hasDefault
    /\ Loaded(file).default = ADDR1

\* C15: after setDefault(a) and then setName(a, n) are saved, the registry
\* reloaded from the file gives getDefault() = a and getName(a) = n.
C15_RoundTrip ==
    [][(/\ toolOp.op = "set_default_account"
        /\ ~toolOp.raised /\ ~toolOp.saveFailed
        /\ toolOp.kind # "unreadable"
        /\ toolOp'.op = "set_account_name"
        /\ toolOp'.addr = toolOp.addr
        /\ ~toolOp'.raised /\ ~toolOp'.saveFailed)
       => /\ get_default_account(file')
               = [raised |-> FALSE, isNone |-> FALSE, addr |-> toolOp.addr]
          /\ get_account_name(file', toolOp.addr)
               = [raised |-> FALSE, name |-> toolOp'.name]]_vars

\* C15 witness: from the empty registry, setDefault(ADDR1) and then
\* setName(ADDR1, "validator-1") have been saved.
C15_Witness ==
    /\ prevOp = [op |-> "set_default_account", addr |-> ADDR1, ok |-> TRUE]
    /\ toolOp.op = "set_account_name"
    /\ toolOp.addr = ADDR1
    /\ toolOp.name = "validator-1"
    /\ ~toolOp.saveFailed
    /\ file = FileOf(Dump(NamedStore))

\* C16: setName(a, n) upserts: afterwards getName(a) = n and a is a key of the
\* accounts map, while the default pointer and the entry of every other
\* address are as before.
C16_SetNameUpserts ==
    [][(/\ toolOp'.op = "set_account_name"
        /\ ~toolOp'.raised /\ ~toolOp'.saveFailed
        /\ toolOp'.kind # "unreadable")
       => LET a == toolOp'.addr
              before == Loaded(file)
              after == Loaded(file')
          IN  /\ get_account_name(file', a) = [raised |-> FALSE, name |-> toolOp'.name]
              /\ after.hasAccounts
              /\ DOMAIN after.accounts = (DOMAIN before.accounts) \cup {a}
              /\ after.hasDefault = before.hasDefault
              /\ after.default = before.default
              /\ \A b \in (DOMAIN before.accounts) \ {a} :
                     after.accounts[b] = before.accounts[b]]_vars

\* C16 witness: a new address was named in a registry that already holds a
\* default and a named account.
C16_Witness ==
    /\ toolOp.op = "set_account_name"
    /\ toolOp.addr = ADDR2
    /\ toolOp.name = "validator-1"
    /\ toolOp.kind = "doc"
    /\ ~toolOp.saveFailed
    /\ prevOp.op = "get_account_name"
    /\ Loaded(file).default = ADDR1
    /\ Loaded(file).accounts[ADDR1].name = "validator-1"
    /\ Loaded(file).accounts[ADDR2].name = "validator-1"

\* C17: getName(a) never fails and returns the empty string for every address
\* that is not in the registry, for every content of the persisted file; for
\* an address with a stored name it returns that name.
C17_GetNameNeverFails ==
    toolOp.op = "get_account_name"
    => LET st == Parse(file.text).value
           named == /\ FileKind(file) = "doc"
                    /\ st.hasAccounts
                    /\ toolOp.addr \in DOMAIN st.accounts
                    /\ st.accounts[toolOp.addr].hasName
       IN  /\ ~toolOp.raised
           /\ ~named => toolOp.name = ""
           /\ named => toolOp.name = st.accounts[toolOp.addr].name

Serialized == \E w \in Writers : wpc[w].otherAt = "done"

UpdatePresent(w) ==
    LET st == Loaded(file)
        a == WriterAddr[w]
    IN  /\ a \in DOMAIN st.accounts
        /\ wpc[w].op = "set_account_name" => st.accounts[a].name = wpc[w].name
        /\ (wpc[w].op = "set_default_account" /\ wpc[Other(w)].op # "set_default_account")
           => (st.hasDefault /\ st.default = a)

\* C19: when two setName/setDefault calls for different addresses are
\* serialized, both updates are in the final registry; when they interleave
\* between load and save, the file holds what the last writer wrote.
C19_SerializedKeepsBoth ==
    (\A w \in Writers : wpc[w].at = "done")
    => /\ Serialized => \A w \in Writers : UpdatePresent(w)
       /\ \E w \in Writers :
             /\ Len(Dump(wstore[w])) <= Len(file.text)
             /\ SubSeq(file.text, 1, Len(Dump(wstore[w]))) = Dump(wstore[w])

\* C19 witness: both calls loaded the empty registry before either saved; the
\* file is the second writer's document and the first writer's name is lost.
C19_Witness ==
    /\ \A w \in Writers : wpc[w].at = "done" /\ wpc[w].op = "set_account_name"
    /\ wpc[1].name = "validator-1"
    /\ ~Serialized
    /\ file = FileOf(Dump(wstore[2]))
    /\ UpdatePresent(2)
    /\ ADDR1 \notin DOMAIN Loaded(file).accounts

\* C21: setDefault(a) changes only the default pointer and, when a is new,
\* adds a with an empty display name; the entry already stored for a and the
\* entries of all other addresses are as before, so setName(a, n) followed by
\* setDefault(a) still yields getName(a) = n.
C21_SetDefaultKeepsNames ==
    [][(/\ toolOp'.op = "set_default_account"
        /\ ~toolOp'.raised /\ ~toolOp'.saveFailed
        /\ toolOp'.kind # "unreadable")
       => LET a == toolOp'.addr
              before == Loaded(file)
              after == Loaded(file')
          IN  /\ after.hasDefault /\ after.default = a
              /\ DOMAIN after.accounts = (DOMAIN before.accounts) \cup {a}
              /\ \A b \in DOMAIN before.accounts : after.accounts[b] = before.accounts[b]
              /\ a \notin DOMAIN before.accounts
                 => after.accounts[a] = [hasName |-> TRUE, name |-> ""]
              /\ (/\ toolOp.op = "set_account_name" /\ toolOp.addr = a
                  /\ ~toolOp.raised /\ ~toolOp.saveFailed)
                 => get_account_name(file', a) = [raised |-> FALSE, name |-> toolOp.name]]_vars

\* C21 witness: setName(ADDR1, "validator-1") and then setDefault(ADDR1) have
\* run while ADDR2 holds a name of its own; both names are still stored.
C21_Witness ==
    /\ prevOp = [op |-> "set_account_name", addr |-> ADDR1, ok |-> TRUE]
    /\ toolOp.op = "set_default_account"
    /\ toolOp.addr = ADDR1
    /\ ~toolOp.saveFailed
    /\ Loaded(file).default = ADDR1
    /\ ADDR2 \in DOMAIN Loaded(file).accounts
    /\ Loaded(file).accounts[ADDR1] = [hasName |-> TRUE, name |-> "validator-1"]
    /\ Loaded(file).accounts[ADDR2] = [hasName |-> TRUE, name |-> "validator-1"]

\* C22: reconciling the default against key records, including records that
\* carry no parent address, never makes the registry hold an empty address:
\* afterwards the default is non-empty and no accounts key is empty.
C22_NoEmptyAddress ==
    toolOp.op = "reconcile_default"
    => /\ Loaded(file).hasDefault => Loaded(file).default # EmptyAddr
       /\ EmptyAddr \notin DOMAIN Loaded(file).accounts

====
